---- MODULE Spec2Model ----
(***************************************************************************)
(* Sessions, tokens and access guards of the AfyaTrack backend.            *)
(*                                                                         *)
(* The repository holds two parallel servers over the same domain:         *)
(*   - the TypeORM server   (AuthService in the TypeORM repositories,      *)
(*                           entity RefreshToken, JwtService), and         *)
(*   - the SQL server       (AuthService in services/auth.service.ts,      *)
(*                           table refresh_tokens of database/schema.sql). *)
(* One of them is deployed (variable service); each keeps its own          *)
(* refresh_tokens table.  A request handler is an async function: between  *)
(* two awaited statements the statements of other requests may run, so a   *)
(* handler is one action per awaited statement on the refresh-token store; *)
(* the reads and writes of the users table and the synchronous code belong *)
(* to the action of the token statement they precede.                      *)
(*                                                                         *)
(* Spec is the server under login, register, refresh, logout, password     *)
(* change, authentication and the sweeps.  AccessSpec is the guards in     *)
(* front of the patient routes, over every assignment of roles and every   *)
(* content of the patients and visits tables.                              *)
(***************************************************************************)
EXTENDS Integers, FiniteSets, Sequences, TLC

\* ------------------------------------------------------------------ bounds
MaxTime == 2         \* the clock runs 0..MaxTime
MaxRequests == 3     \* requests and operator writes the server sees
OrmRefreshTtl == 1   \* REFRESH_TOKEN_EXPIRES_IN ('7d'), in clock ticks
SqlRefreshTtl == 1   \* JWT_REFRESH_EXPIRES_IN / setDate(+30), in clock ticks
TicksPerDay == 2     \* clock ticks in one UTC calendar day
AccessTtl == 1       \* ACCESS_TOKEN_EXPIRES_IN / JWT_EXPIRES_IN, in clock ticks
MaxLimit == 2        \* the largest maxRequests of a rate limiter
MaxWindow == 1       \* the largest windowMs of a rate limiter, in clock ticks

Users == {"u1", "u2"}
Clients == {"c1", "c2"}          \* concurrent requests
Addresses == {"10.0.0.1"}        \* req.ip of a request
Passwords == {"pw1", "pw2"}
Emails == Users \cup {"U2"}        \* the addresses a request spells: u2 also as U2
NewPasswords == {"pw1"}          \* the password a registration asks for

NoTime == 0 - 1                  \* a NULL timestamp column
NoIp == "null"                   \* a NULL address column
NoUser == "nobody"
NoToken == <<"none", 0>>
Garbage == <<"garbage", 0>>      \* a string that is no token this server made
NoPatient == "undefined"         \* a request without a patientId
NoVisit == "undefined"           \* a request without a visitId

VARIABLES
  service,       \* "typeorm" or "sql": the server that is deployed
  registered,    \* the users that have a row in the users table
  now,           \* the wall clock (new Date(), CURRENT_TIMESTAMP, jwt iat)
  userActive,    \* users.is_active, per user
  userPassword,  \* users.password, per user (the password its hash matches)
  ormTokens,     \* TypeORM table refresh_tokens: a set of RefreshToken rows
  sqlTokens,     \* SQL table refresh_tokens: a set of rows
  issued,        \* history: the refresh tokens handed out so far
  requests,      \* how many requests and operator writes the server has seen
  calls,         \* per client: the request in flight
  rotated,       \* history: the tokens some refreshToken call has exchanged
  replacedBy,    \* history: <<presented token, replacement>> of each rotation
  dead,          \* history: the TypeORM tokens seen revoked or expired
  sessions,      \* history: the <<access token, refresh token>> pairs returned
  terminated,    \* history: the tokens a password change had to end
  last,          \* history: the request answered last, and its answer
  lastLogin,     \* users.last_login, per user
  serving,       \* the process is running (it has not exited)
  sweepFailed,   \* history: a run of the periodic sweep has failed
  userRole,      \* users.role, per user
  userFacility,  \* the facilityId claim of the access token each user holds
  patients,      \* SQL table patients: a set of rows
  visits,        \* SQL table visits: a set of rows
  guarded,       \* history: the last request a guard has judged, and how
  earlier,       \* history: how the same request was judged the time before
  jobs,          \* per client: the visit or patient operation in flight
  done,          \* history: the visit or patient operation answered last
  limiter,       \* maxRequests and windowMs of the rate limiter in use
  hits,          \* the Map of the rate limiter: per key, count and resetTime
  served         \* history: the requests the rate limiter has answered

\* the variables of the patient records and of the guards in front of them
records == <<userRole, userFacility, patients, visits, guarded, earlier, jobs, done,
             limiter, hits, served>>

\* the rate limiter
rate == <<limiter, hits, served>>

\* what the guards read
tables == <<userRole, userFacility, patients, visits>>

\* the visit and patient operations
work == <<jobs, done>>

\* the variables of the users, the tokens and the requests that use them
auth == <<service, registered, now, userActive, userPassword, ormTokens, sqlTokens, issued,
          requests, calls, rotated, replacedBy, dead, sessions, terminated, last,
          lastLogin, serving, sweepFailed>>

\* the process and its sweep timer
sweeper == <<serving, sweepFailed>>

vars == <<service, registered, now, userActive, userPassword, ormTokens, sqlTokens, issued,
          requests, calls, rotated, replacedBy, dead, sessions, terminated, last,
          lastLogin, serving, sweepFailed,
          userRole, userFacility, patients, visits, guarded, earlier, jobs, done,
          limiter, hits, served>>

\* ------------------------------------------------------- RefreshToken entity

\* a faulty isActive: a row is still active at the instant of its expiry
IsActiveAtExpiry(row, t) == (~row.isRevoked) /\ row.expiresAt >= t

\* RefreshToken.isActive: !isRevoked && expiresAt > new Date()
IsActive(row, t) == (~row.isRevoked) /\ row.expiresAt > t

\* RefreshToken.revoke(revokedByIp)
Revoke(row, ip, t) ==
  [row EXCEPT !.isRevoked = TRUE, !.revokedAt = t, !.revokedByIp = ip]

\* a faulty generateAccessToken: the token is signed with the other secret
GenerateAccessTokenWithRefreshSecret(userId, t) ==
  <<"jwt", "JWT_REFRESH_SECRET", userId, t>>

\* JwtService.generateAccessToken: jwt.sign(payload, ACCESS_TOKEN_SECRET,
\* {expiresIn}); the string is fixed by the key, the claims and iat
GenerateAccessToken(userId, t) == <<"jwt", "JWT_SECRET", userId, t>>

\* an access token signed with a key that is not the server's
Forged == <<"jwt", "not-the-secret", "u1", 0>>

\* a faulty verification: the lifetime is not added, the token is expired
\* from the second it was signed in
JwtVerifyAccessNoLifetime(token, t) ==
  IF token[1] # "jwt" THEN "JsonWebTokenError"
  ELSE IF token[2] # "JWT_SECRET" THEN "JsonWebTokenError"
  ELSE IF t >= token[4] THEN "TokenExpiredError"
  ELSE "ok"

\* jwt.verify(token, ACCESS_TOKEN_SECRET): the format, then the signature,
\* then exp (iat + expiresIn) against the clock; the class of the error
JwtVerifyAccess(token, t) ==
  IF token[1] # "jwt" THEN "JsonWebTokenError"
  ELSE IF token[2] # "JWT_SECRET" THEN "JsonWebTokenError"
  ELSE IF t >= token[4] + AccessTtl THEN "TokenExpiredError"
  ELSE "ok"

\* error instanceof class: TokenExpiredError extends JsonWebTokenError
InstanceOf(error, class) ==
  error = class \/ (error = "TokenExpiredError" /\ class = "JsonWebTokenError")

\* a stateful verification: the token must also be the access token of a
\* pair the server remembers having returned
VerifyAccessTokenOfRememberedSession(token, t) ==
  IF JwtVerifyAccess(token, t) = "ok" /\ \E s \in sessions : s[1] = token
  THEN [userId |-> token[3], message |-> <<>>]
  ELSE [userId |-> NoUser, message |-> <<"Invalid", "access", "token">>]

\* JwtService.verifyAccessToken: the payload, or the Error it throws (its
\* message word by word)
VerifyAccessToken(token, t) ==
  LET error == JwtVerifyAccess(token, t)
  IN IF error = "ok" THEN [userId |-> token[3], message |-> <<>>]
     ELSE IF InstanceOf(error, "TokenExpiredError")
     THEN [userId |-> NoUser, message |-> <<"Access", "token", "expired">>]
     ELSE IF InstanceOf(error, "JsonWebTokenError")
     THEN [userId |-> NoUser, message |-> <<"Invalid", "access", "token">>]
     ELSE [userId |-> NoUser, message |-> <<"Token", "verification", "failed">>]

\* String.includes(word), on a message given word by word: case-sensitive
Includes(message, word) == \E i \in 1..Len(message) : message[i] = word

\* JwtService.generateRefreshToken: crypto.randomBytes(64), the n-th draw
GenerateRefreshToken(n) == <<"hex", n>>

\* JwtService.getRefreshTokenExpirationDate
GetRefreshTokenExpirationDate(t) == t + OrmRefreshTtl

\* refreshTokenRepository.create + save of saveRefreshToken: a new row, its
\* generated primary key standing in one-to-one for the n-th insert
NewOrmRow(n, token, userId, ip, t) ==
  [id |-> n, token |-> token, userId |-> userId,
   expiresAt |-> GetRefreshTokenExpirationDate(t),
   isRevoked |-> FALSE, createdByIp |-> ip,
   revokedByIp |-> NoIp, revokedAt |-> NoTime]

\* a faulty save: the entity is inserted and the stored row is left as it is
OrmSaveKeepsStored(table, ents) == table \cup ents

\* Repository.save(entity) of a loaded entity: UPDATE by primary key when the
\* row is still stored, INSERT of the entity when it is not
OrmSave(table, ents) ==
  {r \in table : \A e \in ents : e.id # r.id} \cup ents

\* findOne({ where: { token, isRevoked: false } })
FindActiveByToken(table, token) ==
  {r \in table : r.token = token /\ ~r.isRevoked}

\* findOne({ where: { token } })
FindByToken(table, token) == {r \in table : r.token = token}

\* a faulty find: the userId condition is left out of the where clause
FindActiveOfAnyUser(table, userId) == {r \in table : ~r.isRevoked}

\* find({ where: { userId, isRevoked: false } })
FindActiveByUser(table, userId) ==
  {r \in table : r.userId = userId /\ ~r.isRevoked}

\* a faulty WHERE clause: the expiry comparison is written the wrong way round
CleanupMatchesUnexpired(row, userId, t) ==
  row.userId = userId /\ (row.expiresAt > t \/ row.isRevoked)

\* cleanupExpiredTokens: the WHERE clause of its DELETE
CleanupMatches(row, userId, t) ==
  row.userId = userId /\ (row.expiresAt < t \/ row.isRevoked)

\* a TypeORM token is usable: its row is stored, not revoked and not expired
OrmUsable(table, token, t) ==
  \E r \in table : r.token = token /\ (~r.isRevoked) /\ t < r.expiresAt

\* the tokens of the rows that are revoked or past expiry join dead
Bury ==
  dead' = dead \cup {r.token : r \in {x \in ormTokens' : x.isRevoked \/ now' >= x.expiresAt}}

\* what an INSERT into refresh_tokens can do: write the row, or fail with a
\* storage error (disk, lock) that rejects the awaited promise
WriteOutcomes == {"written", "SQLITE_IOERR"}

\* a faulty await: the rejection is caught and the handler goes on
SavedOrIgnored(outcome) == TRUE

\* await of a write: the handler goes on only when the promise resolved
Saved(outcome) == outcome = "written"

\* ------------------------------------------------------------ the requests
Idle ==
  [op |-> "none", pc |-> "idle", userId |-> NoUser, token |-> NoToken,
   ents |-> {}, newToken |-> NoToken, ip |-> NoIp,
   access |-> NoToken, replay |-> FALSE, overlap |-> FALSE]

Free(c) == calls[c].pc = "idle"

\* the server receives a request and handles it in c, the first free of its
\* concurrent handlers
Receive(c) ==
  /\ serving
  /\ Free(c)
  /\ c = "c1" \/ ~Free("c1")
  /\ requests < MaxRequests
  /\ requests' = requests + 1
InFlight(c) == ~Free(c)

\* the messages of the errors the SQL service throws as AppError(message, 401)
AppErrors401 ==
  {"Invalid email or password", "Account is deactivated", "Invalid refresh token",
   "Invalid or expired refresh token", "User not found or inactive",
   "Current password is incorrect", "Access token is required",
   "Invalid or expired token", "Invalid token", "Token expired"}

\* errorHandler: the status of the response to an error passed to next
ErrorHandler(error) ==
  IF error \in AppErrors401 THEN 401
  ELSE IF error = "User not found" THEN 404
  ELSE IF error = "User with this email already exists" THEN 409
  ELSE IF error = "SQLITE_CONSTRAINT" THEN 409
  ELSE 500

\* AuthController: the status each handler of the TypeORM server answers with
ControllerStatus(op, result) ==
  IF result = "ok" THEN (IF op = "register" THEN 201 ELSE 200)
  ELSE IF op \in {"login", "refreshToken", "authenticate"} THEN 401
  ELSE IF op = "register"
  THEN (IF result = "User with this email already exists" THEN 409 ELSE 400)
  ELSE 500

\* the answer to a request: the operation, what it returned, the HTTP status
\* and, for a logout or a protected request, the token it was given
Answer(rec, result) ==
  [op |-> rec.op, result |-> result,
   status |-> IF service = "typeorm" THEN ControllerStatus(rec.op, result)
              ELSE IF result = "ok" THEN (IF rec.op = "register" THEN 201 ELSE 200)
              ELSE ErrorHandler(result),
   token |-> IF rec.op \in {"logout", "authenticate"} THEN rec.token ELSE NoToken]

\* the tokens a client can present: the ones this server handed out, and junk
Presentable == issued \cup {Garbage}

\* how many random tokens crypto.randomBytes has produced
Drawn == Cardinality(issued)

AuthInit ==
  /\ service \in {"typeorm", "sql"}
  /\ now = 0
  /\ userActive = [u \in Users |-> TRUE]
  /\ userPassword = [u \in Users |-> "pw1"]
  /\ ormTokens = {}
  /\ sqlTokens = {}
  /\ issued = {}
  /\ requests = 0
  /\ calls = [c \in Clients |-> Idle]
  /\ rotated = {}
  /\ replacedBy = {}
  /\ dead = {}
  /\ sessions = {}
  /\ terminated = {}
  /\ last = Answer(Idle, "none")
  /\ lastLogin = [u \in Users |-> NoTime]
  /\ serving = TRUE
  /\ sweepFailed = FALSE

\* no guard has judged a request yet
NoGuard ==
  [guard |-> "none", user |-> NoUser, resource |-> NoPatient,
   proceeds |-> FALSE, status |-> 0]

\* no visit or patient operation is in flight, none has been answered
NoJob ==
  [op |-> "none", pc |-> "idle", patient |-> NoPatient, doctor |-> NoUser,
   visit |-> NoVisit]
NoneDone == [op |-> "none", status |-> 0]

\* the key of a request for the rate limiter:
\* req.user?.id || req.ip || 'anonymous'
RateKey(user, ip) ==
  IF user # NoUser THEN user ELSE IF ip # NoIp THEN ip ELSE "anonymous"
RateKeys == {RateKey(user, ip) : user \in Users \cup {NoUser}, ip \in Addresses \cup {NoIp}}

\* requests.get(userId) of a key that was never set
NoEntry == [count |-> 0, resetTime |-> NoTime]

\* the Map of a new rate limiter
NewMap ==
  /\ hits = [k \in RateKeys |-> NoEntry]
  /\ served = {}

\* no guard and no operation on the records has run; the rate limiter has
\* its default parameters
Untouched ==
  /\ guarded = NoGuard
  /\ earlier = "none"
  /\ jobs = [c \in Clients |-> NoJob]
  /\ done = NoneDone
  /\ limiter = [maxRequests |-> 100, windowMs |-> 15 * 60 * 1000]
  /\ NewMap

\* the servers start on empty patient tables; each user has the default role
Init ==
  /\ AuthInit
  /\ registered = {"u1"}
  /\ userRole = [u \in Users |-> "doctor"]
  /\ userFacility = [u \in Users |-> "undefined"]
  /\ patients = {}
  /\ visits = {}
  /\ Untouched

\* ------------------------------------------------------------ environment

\* time passes
Tick ==
  /\ now < MaxTime
  /\ now' = now + 1
  /\ UNCHANGED <<requests, service, userActive, userPassword, ormTokens, sqlTokens,
                 issued, calls, rotated, replacedBy, last>>
  /\ Bury
  /\ UNCHANGED terminated
  /\ UNCHANGED records
  /\ UNCHANGED lastLogin
  /\ UNCHANGED sweeper
  /\ UNCHANGED registered
  /\ UNCHANGED sessions

\* an account is deactivated (users.is_active set to false); no handler of
\* the repository does it, the column is written by the operator
DeactivateUser(u) ==
  /\ u \in registered
  /\ userActive[u]
  /\ requests < MaxRequests
  /\ requests' = requests + 1
  /\ userActive' = [userActive EXCEPT ![u] = FALSE]
  /\ UNCHANGED <<service, now, userPassword, ormTokens, sqlTokens, issued,
                 calls, rotated, replacedBy, last>>
  /\ UNCHANGED dead
  /\ UNCHANGED terminated
  /\ UNCHANGED records
  /\ UNCHANGED lastLogin
  /\ UNCHANGED sweeper
  /\ UNCHANGED registered
  /\ UNCHANGED sessions

\* ---------------------------------------------- TypeORM AuthService.register

\* String.prototype.toLowerCase, on the addresses of the model
ToLowerCase(email) == IF email = "U2" THEN "u2" ELSE email

\* register: userRepository.findOne({ where: { email: email.toLowerCase() } })
OrmRegister(c, email) ==
  /\ service = "typeorm"
  /\ Receive(c)
  /\ LET rec == [Idle EXCEPT !.op = "register", !.userId = ToLowerCase(email)]
     IN IF rec.userId \in registered
        THEN /\ last' = Answer(rec, "User with this email already exists")
             /\ UNCHANGED calls
        ELSE /\ calls' = [calls EXCEPT ![c] = [rec EXCEPT !.pc = "save"]]
             /\ UNCHANGED last
  /\ UNCHANGED <<service, now, userActive, userPassword, ormTokens, sqlTokens, issued,
                 rotated, replacedBy>>
  /\ Bury
  /\ UNCHANGED terminated
  /\ UNCHANGED records
  /\ UNCHANGED lastLogin
  /\ UNCHANGED sweeper
  /\ UNCHANGED registered
  /\ UNCHANGED sessions

\* register: userRepository.save(newUser) with the hash of password pw (the
\* column email is unique), then generateTokenPair,
\* saveRefreshToken(token, savedUser.id) and the response
OrmRegisterSave(c, pw) ==
  /\ service = "typeorm"
  /\ calls[c].op = "register" /\ calls[c].pc = "save"
  /\ calls' = [calls EXCEPT ![c] = Idle]
  /\ LET rec == calls[c]
         u == calls[c].userId
         token == GenerateRefreshToken(Drawn + 1)
     IN IF u \in registered
        THEN /\ last' = Answer(rec, "SQLITE_CONSTRAINT")
             /\ UNCHANGED <<registered, userPassword, issued, ormTokens, sessions>>
        ELSE \E outcome \in WriteOutcomes :
               /\ registered' = registered \cup {u}
               /\ userPassword' = [userPassword EXCEPT ![u] = pw]
               /\ issued' = issued \cup {token}
               /\ ormTokens' =
                    IF outcome = "written"
                    THEN ormTokens \cup {NewOrmRow(Drawn + 1, token, u, NoIp, now)}
                    ELSE ormTokens
               /\ IF Saved(outcome)
                  THEN /\ sessions' = sessions \cup {<<GenerateAccessToken(u, now), token>>}
                       /\ last' = Answer(rec, "ok")
                  ELSE /\ last' = Answer(rec, outcome)
                       /\ UNCHANGED sessions
  /\ UNCHANGED <<requests, service, now, userActive, sqlTokens, rotated, replacedBy>>
  /\ Bury
  /\ UNCHANGED terminated
  /\ UNCHANGED records
  /\ UNCHANGED lastLogin
  /\ UNCHANGED sweeper

\* ------------------------------------------------- TypeORM AuthService.login

\* a faulty login: last_login is written for every attempt
UpdateLastLoginOfAttempt(stamps, u, t, verified) == [stamps EXCEPT ![u] = t]

\* the write of last_login, which a login reaches when the user was found
\* active and the password has matched
UpdateLastLogin(stamps, u, t, verified) ==
  IF verified THEN [stamps EXCEPT ![u] = t] ELSE stamps

\* userRepository.findOne({email, isActive: true}), verifyPassword, then
\* generateTokenPair and saveRefreshToken
OrmLogin(c, u, pw, ip) ==
  /\ service = "typeorm"
  /\ Receive(c)
  /\ LET rec == [Idle EXCEPT !.op = "login", !.userId = u]
     IN IF u \in registered /\ userActive[u] /\ pw = userPassword[u]
        THEN \E outcome \in WriteOutcomes :
               /\ issued' = issued \cup {GenerateRefreshToken(Drawn + 1)}
               /\ ormTokens' =
                    IF outcome = "written"
                    THEN ormTokens \cup
                      {NewOrmRow(Drawn + 1, GenerateRefreshToken(Drawn + 1), u, ip, now)}
                    ELSE ormTokens
               /\ IF Saved(outcome)
                  THEN /\ calls' = [calls EXCEPT ![c] =
                            [rec EXCEPT !.pc = "cleanup",
                                        !.access = GenerateAccessToken(u, now),
                                        !.newToken = GenerateRefreshToken(Drawn + 1)]]
                       /\ UNCHANGED last
                  ELSE /\ last' = Answer(rec, outcome)
                       /\ UNCHANGED calls
        ELSE /\ last' = Answer(rec, "Invalid email or password")
             /\ UNCHANGED <<issued, ormTokens, calls>>
  /\ UNCHANGED <<service, now, userActive, userPassword, sqlTokens,
                 rotated, replacedBy>>
  /\ Bury
  /\ UNCHANGED terminated
  /\ UNCHANGED records
  /\ lastLogin' = UpdateLastLogin(lastLogin, u, now,
                    u \in registered /\ userActive[u] /\ pw = userPassword[u])
  /\ UNCHANGED sweeper
  /\ UNCHANGED registered
  /\ UNCHANGED sessions

\* cleanupExpiredTokens(user.id), then the response
OrmLoginCleanup(c) ==
  /\ service = "typeorm"
  /\ calls[c].op = "login" /\ calls[c].pc = "cleanup"
  /\ ormTokens' = {r \in ormTokens : ~CleanupMatches(r, calls[c].userId, now)}
  /\ calls' = [calls EXCEPT ![c] = Idle]
  /\ sessions' = sessions \cup {<<calls[c].access, calls[c].newToken>>}
  /\ last' = Answer(calls[c], "ok")
  /\ UNCHANGED <<requests, service, now, userActive, userPassword, sqlTokens, issued,
                 rotated, replacedBy>>
  /\ Bury
  /\ UNCHANGED terminated
  /\ UNCHANGED records
  /\ UNCHANGED lastLogin
  /\ UNCHANGED sweeper
  /\ UNCHANGED registered

\* ------------------------------------------ TypeORM AuthService.refreshToken

\* what findOne may return of the rows that match: none, or one of them
FindOne(rows) == IF rows = {} THEN {{}} ELSE {{r} : r \in rows}

\* the requests in flight that present token t to refreshToken
Rotating(t) ==
  {d \in Clients : InFlight(d) /\ calls[d].op = "refreshToken" /\ calls[d].token = t}

\* a refreshToken request of token t as it begins
RefreshCall(t) ==
  [Idle EXCEPT !.op = "refreshToken", !.token = t, !.replay = (t \in rotated),
               !.overlap = (Rotating(t) # {})]

\* calls, with client c's request set to rec and every request in flight
\* that rotates the same token marked as overlapping it
StartRefresh(c, rec) ==
  [d \in Clients |->
     IF d = c THEN rec
     ELSE IF d \in Rotating(rec.token) THEN [calls[d] EXCEPT !.overlap = TRUE]
     ELSE calls[d]]

\* findOne({token, isRevoked: false}), the isActive and user.isActive checks,
\* generateTokenPair and refreshToken.revoke(clientIp)
OrmRefreshToken(c, t, ip) ==
  /\ service = "typeorm"
  /\ Receive(c)
  /\ t \in Presentable
  /\ \E found \in FindOne(FindActiveByToken(ormTokens, t)) :
       IF found = {} \/ \E r \in found : ~IsActive(r, now)
       THEN /\ last' = Answer(RefreshCall(t), "Invalid or expired refresh token")
            /\ UNCHANGED <<issued, calls>>
       ELSE \E r \in found :
              IF ~userActive[r.userId]
              THEN /\ last' = Answer([RefreshCall(t) EXCEPT !.userId = r.userId],
                                     "User account is deactivated")
                   /\ UNCHANGED <<issued, calls>>
              ELSE /\ issued' = issued \cup {GenerateRefreshToken(Drawn + 1)}
                   /\ calls' = StartRefresh(c,
                        [RefreshCall(t) EXCEPT
                           !.pc = "save", !.userId = r.userId,
                           !.ents = {Revoke(r, ip, now)}, !.ip = ip,
                           !.access = GenerateAccessToken(r.userId, now),
                           !.newToken = GenerateRefreshToken(Drawn + 1)])
                   /\ UNCHANGED last
  /\ UNCHANGED <<service, now, userActive, userPassword, ormTokens, sqlTokens,
                 rotated, replacedBy>>
  /\ Bury
  /\ UNCHANGED terminated
  /\ UNCHANGED records
  /\ UNCHANGED lastLogin
  /\ UNCHANGED sweeper
  /\ UNCHANGED registered
  /\ UNCHANGED sessions

\* refreshTokenRepository.save(refreshToken): the revoked row is written
OrmRefreshSave(c) ==
  /\ service = "typeorm"
  /\ calls[c].op = "refreshToken" /\ calls[c].pc = "save"
  /\ ormTokens' = OrmSave(ormTokens, calls[c].ents)
  /\ calls' = [calls EXCEPT ![c].pc = "insert", ![c].ents = {}]
  /\ UNCHANGED <<requests, service, now, userActive, userPassword, sqlTokens, issued,
                 rotated, replacedBy, last>>
  /\ Bury
  /\ UNCHANGED terminated
  /\ UNCHANGED records
  /\ UNCHANGED lastLogin
  /\ UNCHANGED sweeper
  /\ UNCHANGED registered
  /\ UNCHANGED sessions

\* saveRefreshToken(tokens.refreshToken, user.id, clientIp), then the response
OrmRefreshInsert(c) ==
  /\ service = "typeorm"
  /\ calls[c].op = "refreshToken" /\ calls[c].pc = "insert"
  /\ \E outcome \in WriteOutcomes :
       /\ ormTokens' =
            IF outcome = "written"
            THEN ormTokens \cup
              {NewOrmRow(calls[c].newToken[2], calls[c].newToken, calls[c].userId,
                         calls[c].ip, now)}
            ELSE ormTokens
       /\ IF Saved(outcome)
          THEN /\ rotated' = rotated \cup {calls[c].token}
               /\ replacedBy' = replacedBy \cup {<<calls[c].token, calls[c].newToken>>}
               /\ sessions' = sessions \cup {<<calls[c].access, calls[c].newToken>>}
               /\ last' = Answer(calls[c], "ok")
          ELSE /\ last' = Answer(calls[c], outcome)
               /\ UNCHANGED <<rotated, replacedBy, sessions>>
  /\ calls' = [calls EXCEPT ![c] = Idle]
  /\ UNCHANGED <<requests, service, now, userActive, userPassword, sqlTokens, issued>>
  /\ Bury
  /\ UNCHANGED terminated
  /\ UNCHANGED records
  /\ UNCHANGED lastLogin
  /\ UNCHANGED sweeper
  /\ UNCHANGED registered

\* ------------------------------------------------ TypeORM AuthService.logout

\* a logout request of token t as it begins
LogoutCall(t) == [Idle EXCEPT !.op = "logout", !.token = t]

\* findOne({token}); the row is revoked in memory when it is not yet revoked
OrmLogout(c, t, ip) ==
  /\ service = "typeorm"
  /\ Receive(c)
  /\ t \in Presentable
  /\ \E found \in FindOne(FindByToken(ormTokens, t)) :
       IF found # {} /\ \E r \in found : ~r.isRevoked
       THEN /\ calls' = [calls EXCEPT ![c] =
                 [LogoutCall(t) EXCEPT !.pc = "save",
                    !.ents = {Revoke(r, ip, now) : r \in found}]]
            /\ UNCHANGED last
       ELSE /\ last' = Answer(LogoutCall(t), "ok")
            /\ UNCHANGED calls
  /\ UNCHANGED <<service, now, userActive, userPassword, ormTokens, sqlTokens,
                 issued, rotated, replacedBy>>
  /\ Bury
  /\ UNCHANGED terminated
  /\ UNCHANGED records
  /\ UNCHANGED lastLogin
  /\ UNCHANGED sweeper
  /\ UNCHANGED registered
  /\ UNCHANGED sessions

\* refreshTokenRepository.save(refreshToken)
OrmLogoutSave(c) ==
  /\ service = "typeorm"
  /\ calls[c].op = "logout" /\ calls[c].pc = "save"
  /\ ormTokens' = OrmSave(ormTokens, calls[c].ents)
  /\ calls' = [calls EXCEPT ![c] = Idle]
  /\ last' = Answer(calls[c], "ok")
  /\ UNCHANGED <<requests, service, now, userActive, userPassword, sqlTokens, issued,
                 rotated, replacedBy>>
  /\ Bury
  /\ UNCHANGED terminated
  /\ UNCHANGED records
  /\ UNCHANGED lastLogin
  /\ UNCHANGED sweeper
  /\ UNCHANGED registered
  /\ UNCHANGED sessions

\* ---------------------------------- TypeORM AuthService.logoutFromAllDevices

\* find({userId, isRevoked: false}) and token.revoke(clientIp) on each
OrmLogoutFromAllDevices(c, u, ip) ==
  /\ service = "typeorm"
  /\ Receive(c)
  /\ LET found == FindActiveByUser(ormTokens, u)
         rec == [Idle EXCEPT !.op = "logoutFromAllDevices", !.userId = u]
     IN IF found # {}
        THEN /\ calls' = [calls EXCEPT ![c] =
                  [rec EXCEPT !.pc = "save",
                              !.ents = {Revoke(r, ip, now) : r \in found}]]
             /\ UNCHANGED last
        ELSE /\ last' = Answer(rec, "ok")
             /\ UNCHANGED calls
  /\ UNCHANGED <<service, now, userActive, userPassword, ormTokens, sqlTokens,
                 issued, rotated, replacedBy>>
  /\ Bury
  /\ UNCHANGED terminated
  /\ UNCHANGED records
  /\ UNCHANGED lastLogin
  /\ UNCHANGED sweeper
  /\ UNCHANGED registered
  /\ UNCHANGED sessions

\* refreshTokenRepository.save(refreshTokens)
OrmLogoutFromAllDevicesSave(c) ==
  /\ service = "typeorm"
  /\ calls[c].op = "logoutFromAllDevices" /\ calls[c].pc = "save"
  /\ ormTokens' = OrmSave(ormTokens, calls[c].ents)
  /\ calls' = [calls EXCEPT ![c] = Idle]
  /\ last' = Answer(calls[c], "ok")
  /\ UNCHANGED <<requests, service, now, userActive, userPassword, sqlTokens, issued,
                 rotated, replacedBy>>
  /\ Bury
  /\ UNCHANGED terminated
  /\ UNCHANGED records
  /\ UNCHANGED lastLogin
  /\ UNCHANGED sweeper
  /\ UNCHANGED registered
  /\ UNCHANGED sessions

\* ------------------------------------------- TypeORM authenticateToken

\* the access tokens a client can present: the ones returned to it, one
\* signed with another key, and a string that is no JWT
AccessPresentable == {s[1] : s \in sessions} \cup {Forged, Garbage}

\* the message of the 401 response, from the message of the Error caught
CaughtMessage(message) ==
  IF Includes(message, "expired") THEN "Access token has expired"
  ELSE IF Includes(message, "invalid") THEN "Invalid access token"
  ELSE "Authentication failed"

\* authenticateToken: verifyAccessToken, getUserById(payload.userId), then
\* next() or the 401 response
OrmAuthenticateToken(c, a) ==
  /\ service = "typeorm"
  /\ Receive(c)
  /\ a \in AccessPresentable
  /\ LET payload == VerifyAccessToken(a, now)
         rec == [Idle EXCEPT !.op = "authenticate", !.token = a]
     IN last' = Answer(rec,
          IF payload.message # <<>> THEN CaughtMessage(payload.message)
          ELSE IF ~userActive[payload.userId] THEN "Invalid or inactive user account"
          ELSE "ok")
  /\ UNCHANGED <<service, now, userActive, userPassword, ormTokens, sqlTokens,
                 issued, calls, rotated, replacedBy, dead, sessions>>
  /\ UNCHANGED terminated
  /\ UNCHANGED records
  /\ UNCHANGED lastLogin
  /\ UNCHANGED sweeper
  /\ UNCHANGED registered

\* ------------------------------------------------------ SQL server: tokens

\* jwt.sign({userId, email, role}, JWT_SECRET, {expiresIn}) at time t: the
\* string is a function of the claims, of iat (the clock, in whole seconds)
\* and of exp; no jti or other nonce goes into it
JwtSign(userId, t) == <<userId, t>>

\* jwt.sign(payload, JWT_SECRET, {expiresIn: JWT_EXPIRES_IN}): the access
\* token of generateTokens
JwtSignAccess(userId, t) == <<userId, t, "access">>

\* the exp claim of a refresh token signed by generateTokens
JwtExp(token) == token[2] + SqlRefreshTtl

\* jwt.verify(refreshToken, JWT_SECRET): a string this server did not sign
\* raises JsonWebTokenError, a signed one past its exp TokenExpiredError
JwtVerify(token, t) ==
  IF token \notin issued THEN "JsonWebTokenError"
  ELSE IF t >= JwtExp(token) THEN "TokenExpiredError"
  ELSE "ok"

\* the UTC calendar day and the time of day of a clock value
Day(t) == t \div TicksPerDay
TimeOfDay(t) == t % TicksPerDay

\* Date.toISOString(), the text stored in expires_at: YYYY-MM-DDTHH:MM:SS.sssZ
ToISOString(t) == <<Day(t), "T", TimeOfDay(t)>>

\* CURRENT_TIMESTAMP of SQLite, a text: YYYY-MM-DD HH:MM:SS
CurrentTimestamp(t) == <<Day(t), " ", TimeOfDay(t)>>

\* the two texts are compared byte by byte: the date, then 'T' (0x54)
\* against ' ' (0x20), then the time of day
Byte(ch) == IF ch = "T" THEN 84 ELSE 32
TextLess(a, b) ==
  \/ a[1] < b[1]
  \/ a[1] = b[1] /\ Byte(a[2]) < Byte(b[2])
  \/ a[1] = b[1] /\ a[2] = b[2] /\ a[3] < b[3]

\* WHERE expires_at > CURRENT_TIMESTAMP
ExpiresAfterNow(row, t) == TextLess(CurrentTimestamp(t), ToISOString(row.expiresAt))

\* WHERE expires_at <= CURRENT_TIMESTAMP
ExpiredByNow(row, t) == ~TextLess(CurrentTimestamp(t), ToISOString(row.expiresAt))

\* the row generateTokens inserts: expiresAt = new Date() + 30 days
NewSqlRow(token, userId, t) ==
  [token |-> token, userId |-> userId, expiresAt |-> t + SqlRefreshTtl]

\* INSERT INTO refresh_tokens: the column token is UNIQUE
InsertAllowed(table, token) == \A r \in table : r.token # token

\* a SQL token is usable: refreshToken would accept it
SqlUsable(table, token, t) ==
  /\ JwtVerify(token, t) = "ok"
  /\ \E r \in table : r.token = token /\ ExpiresAfterNow(r, t)

\* ------------------------------------------------------ SQL authenticate

\* the tokens a client can present as a Bearer token: every JWT the server
\* returned to it, access or refresh, and a string that is no JWT
BearerPresentable == {s[1] : s \in sessions} \cup issued \cup {Garbage}

\* jwt.verify(token, JWT_SECRET) of the middleware: access and refresh
\* tokens are signed with the same secret; the class of the error
JwtVerifyBearer(token, t) ==
  IF token \notin issued /\ token \notin {s[1] : s \in sessions}
  THEN "JsonWebTokenError"
  ELSE IF t >= token[2] + (IF Len(token) = 3 THEN AccessTtl ELSE SqlRefreshTtl)
  THEN "TokenExpiredError"
  ELSE "ok"

\* the catch block of authenticate: the error handed to next
CaughtError(error) ==
  IF InstanceOf(error, "JsonWebTokenError") THEN "Invalid token"
  ELSE IF InstanceOf(error, "TokenExpiredError") THEN "Token expired"
  ELSE error

\* authenticate: jwt.verify, the SELECT of the active user, then next()
SqlAuthenticate(c, a) ==
  /\ service = "sql"
  /\ Receive(c)
  /\ a \in BearerPresentable
  /\ LET error == JwtVerifyBearer(a, now)
         rec == [Idle EXCEPT !.op = "authenticate", !.token = a]
     IN last' = Answer(rec,
          IF error # "ok" THEN CaughtError(error)
          ELSE IF ~userActive[a[1]] THEN CaughtError("Invalid or expired token")
          ELSE "ok")
  /\ UNCHANGED <<service, now, userActive, userPassword, ormTokens, sqlTokens,
                 issued, calls, rotated, replacedBy, dead, sessions>>
  /\ UNCHANGED terminated
  /\ UNCHANGED records
  /\ UNCHANGED lastLogin
  /\ UNCHANGED sweeper
  /\ UNCHANGED registered

\* ---------------------------------------------- SQL AuthService.register

\* body('email').normalizeEmail() of the route, on the addresses of the model
NormalizeEmail(email) == ToLowerCase(email)

\* register: SELECT id FROM users WHERE email = ?
SqlRegister(c, email) ==
  /\ service = "sql"
  /\ Receive(c)
  /\ LET rec == [Idle EXCEPT !.op = "register", !.userId = NormalizeEmail(email)]
     IN IF rec.userId \in registered
        THEN /\ last' = Answer(rec, "User with this email already exists")
             /\ UNCHANGED calls
        ELSE /\ calls' = [calls EXCEPT ![c] = [rec EXCEPT !.pc = "insert"]]
             /\ UNCHANGED last
  /\ UNCHANGED <<service, now, userActive, userPassword, ormTokens, sqlTokens, issued,
                 rotated, replacedBy>>
  /\ UNCHANGED dead
  /\ UNCHANGED terminated
  /\ UNCHANGED records
  /\ UNCHANGED lastLogin
  /\ UNCHANGED sweeper
  /\ UNCHANGED registered
  /\ UNCHANGED sessions

\* register: INSERT INTO users with the hash of password pw (email is UNIQUE),
\* then generateTokens and the response
SqlRegisterInsert(c, pw) ==
  /\ service = "sql"
  /\ calls[c].op = "register" /\ calls[c].pc = "insert"
  /\ calls' = [calls EXCEPT ![c] = Idle]
  /\ LET rec == calls[c]
         u == calls[c].userId
         token == JwtSign(u, now)
     IN IF u \in registered
        THEN /\ last' = Answer(rec, "SQLITE_CONSTRAINT")
             /\ UNCHANGED <<registered, userPassword, issued, sqlTokens, sessions>>
        ELSE /\ registered' = registered \cup {u}
             /\ userPassword' = [userPassword EXCEPT ![u] = pw]
             /\ IF ~InsertAllowed(sqlTokens, token)
                THEN /\ last' = Answer(rec, "SQLITE_CONSTRAINT")
                     /\ UNCHANGED <<sqlTokens, issued, sessions>>
                ELSE \E outcome \in WriteOutcomes :
                       /\ sqlTokens' = IF outcome = "written"
                                       THEN sqlTokens \cup {NewSqlRow(token, u, now)}
                                       ELSE sqlTokens
                       /\ IF Saved(outcome)
                          THEN /\ issued' = issued \cup {token}
                               /\ sessions' = sessions \cup
                                    {<<JwtSignAccess(u, now), token>>}
                               /\ last' = Answer(rec, "ok")
                          ELSE /\ last' = Answer(rec, outcome)
                               /\ UNCHANGED <<issued, sessions>>
  /\ UNCHANGED <<requests, service, now, userActive, ormTokens, rotated, replacedBy>>
  /\ UNCHANGED dead
  /\ UNCHANGED terminated
  /\ UNCHANGED records
  /\ UNCHANGED lastLogin
  /\ UNCHANGED sweeper

\* ------------------------------------------------- SQL AuthService.login

\* the user is read and checked, last_login is updated, generateTokens signs
\* the pair and inserts the refresh token's row
SqlLogin(c, u, pw) ==
  /\ service = "sql"
  /\ Receive(c)
  /\ LET rec == [Idle EXCEPT !.op = "login", !.userId = u]
         token == JwtSign(u, now)
     IN IF u \notin registered
        THEN /\ last' = Answer(rec, "Invalid email or password")
             /\ UNCHANGED <<sqlTokens, issued, sessions>>
        ELSE IF ~userActive[u]
        THEN /\ last' = Answer(rec, "Account is deactivated")
             /\ UNCHANGED <<sqlTokens, issued, sessions>>
        ELSE IF pw # userPassword[u]
        THEN /\ last' = Answer(rec, "Invalid email or password")
             /\ UNCHANGED <<sqlTokens, issued, sessions>>
        ELSE IF ~InsertAllowed(sqlTokens, token)
        THEN /\ last' = Answer(rec, "SQLITE_CONSTRAINT")
             /\ UNCHANGED <<sqlTokens, issued, sessions>>
        ELSE \E outcome \in WriteOutcomes :
               /\ sqlTokens' = IF outcome = "written"
                               THEN sqlTokens \cup {NewSqlRow(token, u, now)}
                               ELSE sqlTokens
               /\ IF Saved(outcome)
                  THEN /\ issued' = issued \cup {token}
                       /\ sessions' = sessions \cup {<<JwtSignAccess(u, now), token>>}
                       /\ last' = Answer(rec, "ok")
                  ELSE /\ last' = Answer(rec, outcome)
                       /\ UNCHANGED <<issued, sessions>>
  /\ UNCHANGED <<service, now, userActive, userPassword, ormTokens, calls,
                 rotated, replacedBy>>
  /\ UNCHANGED dead
  /\ UNCHANGED terminated
  /\ UNCHANGED records
  /\ lastLogin' = UpdateLastLogin(lastLogin, u, now,
                    u \in registered /\ userActive[u] /\ pw = userPassword[u])
  /\ UNCHANGED sweeper
  /\ UNCHANGED registered

\* ------------------------------------------ SQL AuthService.refreshToken

\* jwt.verify, the SELECT of the token's row and the SELECT of its user
SqlRefreshToken(c, t) ==
  /\ service = "sql"
  /\ Receive(c)
  /\ t \in Presentable
  /\ IF JwtVerify(t, now) # "ok"
     THEN /\ last' = Answer(RefreshCall(t), "Invalid refresh token")
          /\ UNCHANGED calls
     ELSE \E found \in FindOne({r \in sqlTokens :
                                  r.token = t /\ ExpiresAfterNow(r, now)}) :
            IF found = {}
            THEN /\ last' = Answer(RefreshCall(t), "Invalid or expired refresh token")
                 /\ UNCHANGED calls
            ELSE \E r \in found :
                   IF ~userActive[r.userId]
                   THEN /\ last' = Answer(RefreshCall(t), "User not found or inactive")
                        /\ UNCHANGED calls
                   ELSE /\ calls' = StartRefresh(c,
                             [RefreshCall(t) EXCEPT !.pc = "delete",
                                                    !.userId = r.userId])
                        /\ UNCHANGED last
  /\ UNCHANGED <<service, now, userActive, userPassword, ormTokens, sqlTokens,
                 issued, rotated, replacedBy>>
  /\ UNCHANGED dead
  /\ UNCHANGED terminated
  /\ UNCHANGED records
  /\ UNCHANGED lastLogin
  /\ UNCHANGED sweeper
  /\ UNCHANGED registered
  /\ UNCHANGED sessions

\* DELETE FROM refresh_tokens WHERE token = ?
SqlRefreshDelete(c) ==
  /\ service = "sql"
  /\ calls[c].op = "refreshToken" /\ calls[c].pc = "delete"
  /\ sqlTokens' = {r \in sqlTokens : r.token # calls[c].token}
  /\ calls' = [calls EXCEPT ![c].pc = "issue"]
  /\ UNCHANGED <<requests, service, now, userActive, userPassword, ormTokens, issued,
                 rotated, replacedBy, last>>
  /\ UNCHANGED dead
  /\ UNCHANGED terminated
  /\ UNCHANGED records
  /\ UNCHANGED lastLogin
  /\ UNCHANGED sweeper
  /\ UNCHANGED registered
  /\ UNCHANGED sessions

\* generateTokens(user.id, user.email, user.role), then the response
SqlRefreshIssue(c) ==
  /\ service = "sql"
  /\ calls[c].op = "refreshToken" /\ calls[c].pc = "issue"
  /\ LET token == JwtSign(calls[c].userId, now)
     IN IF InsertAllowed(sqlTokens, token)
        THEN \E outcome \in WriteOutcomes :
               /\ sqlTokens' =
                    IF outcome = "written"
                    THEN sqlTokens \cup {NewSqlRow(token, calls[c].userId, now)}
                    ELSE sqlTokens
               /\ IF Saved(outcome)
                  THEN /\ issued' = issued \cup {token}
                       /\ rotated' = rotated \cup {calls[c].token}
                       /\ replacedBy' = replacedBy \cup {<<calls[c].token, token>>}
                       /\ sessions' = sessions \cup
                            {<<JwtSignAccess(calls[c].userId, now), token>>}
                       /\ last' = Answer(calls[c], "ok")
                  ELSE /\ last' = Answer(calls[c], outcome)
                       /\ UNCHANGED <<issued, rotated, replacedBy, sessions>>
        ELSE /\ last' = Answer(calls[c], "SQLITE_CONSTRAINT")
             /\ UNCHANGED <<sqlTokens, issued, rotated, replacedBy, sessions>>
  /\ calls' = [calls EXCEPT ![c] = Idle]
  /\ UNCHANGED <<requests, service, now, userActive, userPassword, ormTokens>>
  /\ UNCHANGED dead
  /\ UNCHANGED terminated
  /\ UNCHANGED records
  /\ UNCHANGED lastLogin
  /\ UNCHANGED sweeper
  /\ UNCHANGED registered

\* ------------------------------------------------ SQL AuthService.logout

\* DELETE FROM refresh_tokens WHERE token = ?; no row deleted is an error
SqlLogout(c, t) ==
  /\ service = "sql"
  /\ Receive(c)
  /\ t \in Presentable
  /\ sqlTokens' = {r \in sqlTokens : r.token # t}
  /\ last' = Answer(LogoutCall(t),
                    IF sqlTokens' = sqlTokens THEN "Invalid refresh token" ELSE "ok")
  /\ UNCHANGED <<service, now, userActive, userPassword, ormTokens, issued,
                 calls, rotated, replacedBy>>
  /\ UNCHANGED dead
  /\ UNCHANGED terminated
  /\ UNCHANGED records
  /\ UNCHANGED lastLogin
  /\ UNCHANGED sweeper
  /\ UNCHANGED registered
  /\ UNCHANGED sessions

\* ---------------------------------------- SQL AuthService.changePassword

\* the user is read, the current password compared, the new hash stored
\* (ents: the refresh tokens issued to the user before the call, for the
\* history)
SqlChangePassword(c, u, current, new) ==
  /\ service = "sql"
  /\ Receive(c)
  /\ LET rec == [Idle EXCEPT !.op = "changePassword", !.userId = u]
     IN IF u \notin registered \/ ~userActive[u]
        THEN /\ last' = Answer(rec, "User not found")
             /\ UNCHANGED <<userPassword, calls>>
        ELSE IF current # userPassword[u]
        THEN /\ last' = Answer(rec, "Current password is incorrect")
             /\ UNCHANGED <<userPassword, calls>>
        ELSE /\ userPassword' = [userPassword EXCEPT ![u] = new]
             /\ calls' = [calls EXCEPT ![c] =
                  [rec EXCEPT !.pc = "delete",
                              !.ents = {t \in issued : t[1] = u}]]
             /\ UNCHANGED last
  /\ UNCHANGED <<service, now, userActive, ormTokens, sqlTokens, issued,
                 rotated, replacedBy>>
  /\ UNCHANGED dead
  /\ UNCHANGED terminated
  /\ UNCHANGED records
  /\ UNCHANGED lastLogin
  /\ UNCHANGED sweeper
  /\ UNCHANGED registered
  /\ UNCHANGED sessions

\* DELETE FROM refresh_tokens WHERE user_id = ?
SqlChangePasswordDelete(c) ==
  /\ service = "sql"
  /\ calls[c].op = "changePassword" /\ calls[c].pc = "delete"
  /\ sqlTokens' = {r \in sqlTokens : r.userId # calls[c].userId}
  /\ calls' = [calls EXCEPT ![c] = Idle]
  /\ last' = Answer(calls[c], "ok")
  /\ terminated' = terminated \cup calls[c].ents
  /\ UNCHANGED <<requests, service, now, userActive, userPassword, ormTokens, issued,
                 rotated, replacedBy>>
  /\ UNCHANGED dead
  /\ UNCHANGED records
  /\ UNCHANGED lastLogin
  /\ UNCHANGED sweeper
  /\ UNCHANGED registered
  /\ UNCHANGED sessions

\* ------------------------------------ SQL AuthService.cleanExpiredTokens

\* a faulty sweep: the rejection of the DELETE leaves the callback of the
\* timer, and the handler of unhandled rejections ends the process
SwallowedNever(outcome) == outcome = "written"

\* try { ... } catch (error) { logAuth(...) } of cleanExpiredTokens, and the
\* try / catch of the timer's callback around it
Swallowed(outcome) == TRUE

\* cleanExpiredTokens: DELETE FROM refresh_tokens WHERE expires_at <=
\* CURRENT_TIMESTAMP, with what the DELETE does
CleanExpiredTokens(outcome) ==
  /\ service = "sql"
  /\ serving
  /\ sqlTokens' = IF outcome = "written"
                  THEN {r \in sqlTokens : ~ExpiredByNow(r, now)}
                  ELSE sqlTokens
  /\ serving' = Swallowed(outcome)
  /\ sweepFailed' = (sweepFailed \/ outcome # "written")
  /\ UNCHANGED <<requests, service, now, userActive, userPassword, ormTokens, issued,
                 calls, rotated, replacedBy, last>>
  /\ UNCHANGED dead
  /\ UNCHANGED terminated
  /\ UNCHANGED records
  /\ UNCHANGED lastLogin
  /\ UNCHANGED registered
  /\ UNCHANGED sessions

\* the hourly timer of startCleanupInterval
SqlCleanExpiredTokens == \E outcome \in WriteOutcomes : CleanExpiredTokens(outcome)

Next ==
  \/ Tick
  \/ \E u \in Users : DeactivateUser(u)
  \/ \E c \in Clients, email \in Emails : OrmRegister(c, email)
  \/ \E c \in Clients, pw \in NewPasswords : OrmRegisterSave(c, pw)
  \/ \E c \in Clients, u \in Users, pw \in Passwords, ip \in Addresses :
        OrmLogin(c, u, pw, ip)
  \/ \E c \in Clients : OrmLoginCleanup(c)
  \/ \E c \in Clients, t \in Presentable, ip \in Addresses :
        OrmRefreshToken(c, t, ip)
  \/ \E c \in Clients : OrmRefreshSave(c)
  \/ \E c \in Clients : OrmRefreshInsert(c)
  \/ \E c \in Clients, t \in Presentable, ip \in Addresses :
        OrmLogout(c, t, ip)
  \/ \E c \in Clients : OrmLogoutSave(c)
  \/ \E c \in Clients, u \in Users, ip \in Addresses :
        OrmLogoutFromAllDevices(c, u, ip)
  \/ \E c \in Clients : OrmLogoutFromAllDevicesSave(c)
  \/ \E c \in Clients, a \in AccessPresentable : OrmAuthenticateToken(c, a)
  \/ \E c \in Clients, a \in BearerPresentable : SqlAuthenticate(c, a)
  \/ \E c \in Clients, email \in Emails : SqlRegister(c, email)
  \/ \E c \in Clients, pw \in NewPasswords : SqlRegisterInsert(c, pw)
  \/ \E c \in Clients, u \in Users, pw \in Passwords : SqlLogin(c, u, pw)
  \/ \E c \in Clients, t \in Presentable : SqlRefreshToken(c, t)
  \/ \E c \in Clients : SqlRefreshDelete(c)
  \/ \E c \in Clients : SqlRefreshIssue(c)
  \/ \E c \in Clients, t \in Presentable : SqlLogout(c, t)
  \/ \E c \in Clients, u \in Users, current \in Passwords, new \in Passwords :
        SqlChangePassword(c, u, current, new)
  \/ \E c \in Clients : SqlChangePasswordDelete(c)
  \/ SqlCleanExpiredTokens

Spec == Init /\ [][Next]_vars

\* ======================================================= roles and guards

PatientIds == {"p1", "p2"}

\* enum UserRole of the TypeORM entity; CHECK (role IN ...) of the SQL schema
OrmRoles == {"doctor", "nurse", "admin", "receptionist"}
SqlRoles == {"doctor", "nurse", "admin", "clinician"}
Roles == IF service = "typeorm" THEN OrmRoles ELSE SqlRoles

\* User.canAccessPatient
CanAccessPatient(role) == role \in {"doctor", "nurse", "admin"}

\* a faulty canModifyPatient: the role list of canAccessPatient
CanModifyPatientAsAccess(role) == role \in {"doctor", "nurse", "admin"}

\* User.canModifyPatient
CanModifyPatient(role) == role \in {"doctor", "admin"}

\* User.isAdmin
IsAdmin(role) == role = "admin"

\* what a guard did with the request of user u that names the patient, the
\* visit or the facility p: it called next(), or it ended the request with a
\* status (res.status(...).json(...), or next(error) and errorHandler)
Proceeds(name, u, p) ==
  [guard |-> name, user |-> u, resource |-> p, proceeds |-> TRUE, status |-> 0]
Denies(name, u, p, code) ==
  [guard |-> name, user |-> u, resource |-> p, proceeds |-> FALSE, status |-> code]

\* the judgement of a guard is recorded; when the request judged is the one
\* judged just before, so is the judgement it got then
Judge(judgement) ==
  /\ guarded' = judgement
  /\ earlier' =
       IF /\ guarded.guard = judgement.guard
          /\ guarded.user = judgement.user
          /\ guarded.resource = judgement.resource
       THEN (IF guarded.proceeds THEN "allowed" ELSE "denied")
       ELSE "none"

\* what a SELECT can do: answer, or fail with a storage error that rejects
\* the awaited promise of dbManager.get
ReadOutcomes == {"read", "SQLITE_IOERR"}

\* a faulty catch block: the request goes on without a user check
GuardCatchContinues(name, u, p, error) == Proceeds(name, u, p)

\* catch (error) { next(error) } of the guards of the SQL server
GuardCatch(name, u, p, error) == Denies(name, u, p, ErrorHandler(error))

\* the facilities, and the facilityId that is absent (undefined) or null
Facilities == {"f1", "f2"}
FacilityValues == Facilities \cup {"undefined", "null"}

\* the role lists the routes pass to the guards
RoleLists == {{"admin"}, {"doctor", "nurse", "admin"}}

\* requireRole(...roles), on the req.user that authenticateToken attached
RequireRole(u, roles) ==
  /\ service = "typeorm"
  /\ Judge(
       IF u = NoUser THEN Denies("requireRole", u, NoPatient, 401)
       ELSE IF userRole[u] \notin roles
       THEN Denies("requireRole", u, NoPatient, 403)
       ELSE Proceeds("requireRole", u, NoPatient))
  /\ UNCHANGED tables
  /\ UNCHANGED work
  /\ UNCHANGED rate
  /\ UNCHANGED auth

\* requirePatientAccess, on the req.user that authenticateToken attached
\* (NoUser: none attached)
RequirePatientAccess(u) ==
  /\ service = "typeorm"
  /\ Judge(
       IF u = NoUser THEN Denies("requirePatientAccess", u, NoPatient, 401)
       ELSE IF ~CanAccessPatient(userRole[u])
       THEN Denies("requirePatientAccess", u, NoPatient, 403)
       ELSE Proceeds("requirePatientAccess", u, NoPatient))
  /\ UNCHANGED tables
  /\ UNCHANGED work
  /\ UNCHANGED rate
  /\ UNCHANGED auth

\* requirePatientModify
RequirePatientModify(u) ==
  /\ service = "typeorm"
  /\ Judge(
       IF u = NoUser THEN Denies("requirePatientModify", u, NoPatient, 401)
       ELSE IF ~CanModifyPatient(userRole[u])
       THEN Denies("requirePatientModify", u, NoPatient, 403)
       ELSE Proceeds("requirePatientModify", u, NoPatient))
  /\ UNCHANGED tables
  /\ UNCHANGED work
  /\ UNCHANGED rate
  /\ UNCHANGED auth

\* requireAdmin
RequireAdmin(u) ==
  /\ service = "typeorm"
  /\ Judge(
       IF u = NoUser THEN Denies("requireAdmin", u, NoPatient, 401)
       ELSE IF ~IsAdmin(userRole[u])
       THEN Denies("requireAdmin", u, NoPatient, 403)
       ELSE Proceeds("requireAdmin", u, NoPatient))
  /\ UNCHANGED tables
  /\ UNCHANGED work
  /\ UNCHANGED rate
  /\ UNCHANGED auth

\* requireFacilityAccess; facilityId is req.params.facilityId ||
\* req.body.facilityId, and the check is req.user.facilityId !== facilityId
RequireFacilityAccess(u, facilityId) ==
  /\ service = "typeorm"
  /\ Judge(
       IF u = NoUser THEN Denies("requireFacilityAccess", u, facilityId, 401)
       ELSE IF IsAdmin(userRole[u])
       THEN Proceeds("requireFacilityAccess", u, facilityId)
       ELSE IF userFacility[u] # facilityId
       THEN Denies("requireFacilityAccess", u, facilityId, 403)
       ELSE Proceeds("requireFacilityAccess", u, facilityId))
  /\ UNCHANGED tables
  /\ UNCHANGED work
  /\ UNCHANGED rate
  /\ UNCHANGED auth

\* authorize(...roles), on the req.user that authenticate attached
Authorize(u, roles) ==
  /\ service = "sql"
  /\ Judge(
       IF u = NoUser THEN Denies("authorize", u, NoPatient, 401)
       ELSE IF userRole[u] \notin roles
       THEN Denies("authorize", u, NoPatient, 403)
       ELSE Proceeds("authorize", u, NoPatient))
  /\ UNCHANGED tables
  /\ UNCHANGED work
  /\ UNCHANGED rate
  /\ UNCHANGED auth

\* a faulty ownership check: the decision the same request got the time
\* before is used again
HasAccessDecidedBefore(patientTable, visitTable, patientId, userId) ==
  IF /\ guarded.guard = "authorizePatientAccess"
     /\ guarded.user = userId
     /\ guarded.resource = patientId
     /\ guarded.status \in {0, 403}
  THEN guarded.proceeds
  ELSE \E p \in patientTable :
         /\ p.id = patientId
         /\ \/ p.created_by = userId
            \/ \E v \in visitTable : v.patient_id = p.id /\ v.doctor_id = userId

\* a faulty ownership query: only the creator of the patient is found
HasAccessAsCreator(patientTable, visitTable, patientId, userId) ==
  \E p \in patientTable : p.id = patientId /\ p.created_by = userId

\* SELECT 1 FROM patients p WHERE p.id = ? AND (p.created_by = ? OR EXISTS
\* (SELECT 1 FROM visits v WHERE v.patient_id = p.id AND v.doctor_id = ?))
HasAccess(patientTable, visitTable, patientId, userId) ==
  \E p \in patientTable :
    /\ p.id = patientId
    /\ \/ p.created_by = userId
       \/ \E v \in visitTable : v.patient_id = p.id /\ v.doctor_id = userId

\* authorizePatientAccess, on the req.user that authenticate attached; the
\* AppError it hands to next leaves through errorHandler with its status;
\* outcome is what the SELECT does when it is run
AuthorizePatientAccess(u, p, outcome) ==
  /\ service = "sql"
  /\ Judge(
       IF u = NoUser THEN Denies("authorizePatientAccess", u, p, 401)
       ELSE IF p = NoPatient THEN Denies("authorizePatientAccess", u, p, 400)
       ELSE IF userRole[u] = "admin" THEN Proceeds("authorizePatientAccess", u, p)
       ELSE IF outcome # "read"
       THEN GuardCatch("authorizePatientAccess", u, p, outcome)
       ELSE IF ~HasAccess(patients, visits, p, u)
       THEN Denies("authorizePatientAccess", u, p, 403)
       ELSE Proceeds("authorizePatientAccess", u, p))
  /\ UNCHANGED tables
  /\ UNCHANGED work
  /\ UNCHANGED rate
  /\ UNCHANGED auth

\* SELECT 1 FROM visits v JOIN patients p ON v.patient_id = p.id
\* WHERE v.id = ? AND (v.doctor_id = ? OR p.created_by = ?)
HasVisitAccess(patientTable, visitTable, visitId, userId) ==
  \E v \in visitTable, p \in patientTable :
    /\ v.patient_id = p.id
    /\ v.id = visitId
    /\ (v.doctor_id = userId \/ p.created_by = userId)

\* authorizeVisitAccess
AuthorizeVisitAccess(u, v, outcome) ==
  /\ service = "sql"
  /\ Judge(
       IF u = NoUser THEN Denies("authorizeVisitAccess", u, v, 401)
       ELSE IF v = NoVisit THEN Denies("authorizeVisitAccess", u, v, 400)
       ELSE IF userRole[u] = "admin" THEN Proceeds("authorizeVisitAccess", u, v)
       ELSE IF outcome # "read"
       THEN GuardCatch("authorizeVisitAccess", u, v, outcome)
       ELSE IF ~HasVisitAccess(patients, visits, v, u)
       THEN Denies("authorizeVisitAccess", u, v, 403)
       ELSE Proceeds("authorizeVisitAccess", u, v))
  /\ UNCHANGED tables
  /\ UNCHANGED work
  /\ UNCHANGED rate
  /\ UNCHANGED auth

\* the patients tables: id is the primary key, created_by references a user
PatientTables ==
  {t \in SUBSET {[id |-> p, created_by |-> u] : p \in PatientIds, u \in Users} :
     \A a, b \in t : a.id = b.id => a = b}

\* the visits tables over a patients table: id is the primary key,
\* patient_id and doctor_id are foreign keys (PRAGMA foreign_keys = ON)
VisitIds == {"v1", "v2"}
VisitTables(patientTable) ==
  {t \in SUBSET {[id |-> v, patient_id |-> p.id, doctor_id |-> u] :
                   v \in VisitIds, p \in patientTable, u \in Users} :
     \A a, b \in t : a.id = b.id => a = b}

\* ------------------------------------------- VisitService, PatientService

\* a request for a visit or patient operation takes a free handler
Begin(c) ==
  /\ service = "sql"
  /\ requests < MaxRequests
  /\ jobs[c] = NoJob
  /\ (c = "c1" \/ jobs["c1"] # NoJob)
  /\ requests' = requests + 1

\* the operation of client c waits for its next statement
Await(c, job) ==
  /\ jobs' = [jobs EXCEPT ![c] = job]
  /\ UNCHANGED done

\* the operation of client c is answered: 200 or 201, or the status that
\* errorHandler gives the error thrown
Finish(c, op, status) ==
  /\ jobs' = [jobs EXCEPT ![c] = NoJob]
  /\ done' = [op |-> op, status |-> status]

\* what the visit and patient operations leave alone
authButRequests ==
  <<service, registered, now, userActive, userPassword, ormTokens, sqlTokens, issued,
    calls, rotated, replacedBy, dead, sessions, terminated, last,
    lastLogin, serving, sweepFailed>>
judged == <<userRole, userFacility, guarded, earlier>>

\* uuidv4(): an id that no stored visit has
Uuidv4(visitTable) == CHOOSE v \in VisitIds : \A r \in visitTable : r.id # v

\* createVisit: SELECT id FROM patients WHERE id = ?
CreateVisit(c, p, d) ==
  /\ Begin(c)
  /\ IF \E r \in patients : r.id = p
     THEN Await(c, [NoJob EXCEPT !.op = "createVisit", !.pc = "insert",
                                 !.patient = p, !.doctor = d])
     ELSE Finish(c, "createVisit", 404)
  /\ UNCHANGED <<patients, visits>>
  /\ UNCHANGED judged
  /\ UNCHANGED rate
  /\ UNCHANGED authButRequests

\* createVisit: INSERT INTO visits with a new uuid; the foreign key
\* patient_id REFERENCES patients(id) is enforced by the store
CreateVisitInsert(c) ==
  /\ jobs[c].op = "createVisit" /\ jobs[c].pc = "insert"
  /\ IF \E r \in patients : r.id = jobs[c].patient
     THEN /\ \E v \in VisitIds : \A r \in visits : r.id # v
          /\ visits' = visits \cup {[id |-> Uuidv4(visits),
                                      patient_id |-> jobs[c].patient,
                                      doctor_id |-> jobs[c].doctor]}
          /\ Finish(c, "createVisit", 201)
     ELSE /\ Finish(c, "createVisit", ErrorHandler("SQLITE_CONSTRAINT"))
          /\ UNCHANGED visits
  /\ UNCHANGED <<patients, requests>>
  /\ UNCHANGED judged
  /\ UNCHANGED rate
  /\ UNCHANGED authButRequests

\* deleteVisit: getVisitById
DeleteVisit(c, v) ==
  /\ Begin(c)
  /\ IF \E r \in visits : r.id = v
     THEN Await(c, [NoJob EXCEPT !.op = "deleteVisit", !.pc = "delete", !.visit = v])
     ELSE Finish(c, "deleteVisit", 404)
  /\ UNCHANGED <<patients, visits>>
  /\ UNCHANGED judged
  /\ UNCHANGED rate
  /\ UNCHANGED authButRequests

\* deleteVisit: DELETE FROM visits WHERE id = ?
DeleteVisitDelete(c) ==
  /\ jobs[c].op = "deleteVisit" /\ jobs[c].pc = "delete"
  /\ visits' = {r \in visits : r.id # jobs[c].visit}
  /\ Finish(c, "deleteVisit", 200)
  /\ UNCHANGED <<patients, requests>>
  /\ UNCHANGED judged
  /\ UNCHANGED rate
  /\ UNCHANGED authButRequests

\* deletePatient: getPatientById
DeletePatient(c, p) ==
  /\ Begin(c)
  /\ IF \E r \in patients : r.id = p
     THEN Await(c, [NoJob EXCEPT !.op = "deletePatient", !.pc = "count", !.patient = p])
     ELSE Finish(c, "deletePatient", 404)
  /\ UNCHANGED <<patients, visits>>
  /\ UNCHANGED judged
  /\ UNCHANGED rate
  /\ UNCHANGED authButRequests

\* deletePatient: SELECT COUNT(*) FROM visits WHERE patient_id = ?
DeletePatientCount(c) ==
  /\ jobs[c].op = "deletePatient" /\ jobs[c].pc = "count"
  /\ IF Cardinality({r \in visits : r.patient_id = jobs[c].patient}) > 0
     THEN Finish(c, "deletePatient", 400)
     ELSE Await(c, [jobs[c] EXCEPT !.pc = "delete"])
  /\ UNCHANGED <<patients, visits, requests>>
  /\ UNCHANGED judged
  /\ UNCHANGED rate
  /\ UNCHANGED authButRequests

\* deletePatient: DELETE FROM patients WHERE id = ?; the visits of the
\* patient go with it (ON DELETE CASCADE)
DeletePatientDelete(c) ==
  /\ jobs[c].op = "deletePatient" /\ jobs[c].pc = "delete"
  /\ patients' = {r \in patients : r.id # jobs[c].patient}
  /\ visits' = {r \in visits : r.patient_id # jobs[c].patient}
  /\ Finish(c, "deletePatient", 200)
  /\ UNCHANGED requests
  /\ UNCHANGED judged
  /\ UNCHANGED rate
  /\ UNCHANGED authButRequests

\* the SQL server with any patients and no visit yet, and the requests that
\* read and change the visits
RecordsInit ==
  /\ AuthInit
  /\ service = "sql"
  /\ registered = Users
  /\ userRole = [u \in Users |-> "doctor"]
  /\ userFacility = [u \in Users |-> "undefined"]
  /\ patients \in PatientTables
  /\ visits = {}
  /\ Untouched

RecordsNext ==
  \/ \E u \in Users, p \in PatientIds : AuthorizePatientAccess(u, p, "read")
  \/ \E c \in Clients, p \in PatientIds, d \in Users : CreateVisit(c, p, d)
  \/ \E c \in Clients : CreateVisitInsert(c)
  \/ \E c \in Clients, v \in VisitIds : DeleteVisit(c, v)
  \/ \E c \in Clients : DeleteVisitDelete(c)
  \/ \E c \in Clients, p \in PatientIds : DeletePatient(c, p)
  \/ \E c \in Clients : DeletePatientCount(c)
  \/ \E c \in Clients : DeletePatientDelete(c)

RecordsSpec == RecordsInit /\ [][RecordsNext]_vars

\* ------------------------------------------------------- rateLimitByUser

\* a faulty limit test: one request more is let through
ExhaustedAbove(entry, maxRequests) == entry.count > maxRequests

\* userRequests.count >= maxRequests
Exhausted(entry, maxRequests) == entry.count >= maxRequests

\* the middleware that rateLimitByUser(maxRequests, windowMs) returns, on a
\* request of the user attached (NoUser: none) from address ip; the request
\* is passed to next (status 0) or answered 429
RateLimitByUser(user, ip) ==
  /\ service = "sql"
  /\ requests < MaxRequests
  /\ requests' = requests + 1
  /\ LET userId == RateKey(user, ip)
         userRequests == hits[userId]
         answer(status) == [seq |-> requests + 1, key |-> userId, time |-> now,
                            status |-> status]
     IN IF userRequests = NoEntry \/ now > userRequests.resetTime
        THEN /\ hits' = [hits EXCEPT ![userId] =
                          [count |-> 1, resetTime |-> now + limiter.windowMs]]
             /\ served' = served \cup {answer(0)}
        ELSE IF Exhausted(userRequests, limiter.maxRequests)
        THEN /\ served' = served \cup {answer(429)}
             /\ UNCHANGED hits
        ELSE /\ hits' = [hits EXCEPT ![userId].count = @ + 1]
             /\ served' = served \cup {answer(0)}
  /\ UNCHANGED limiter
  /\ UNCHANGED <<tables, guarded, earlier, work>>
  /\ UNCHANGED authButRequests

\* the SQL server behind a rate limiter with some limit and window
RateInit ==
  /\ AuthInit
  /\ service = "sql"
  /\ registered = Users
  /\ userRole = [u \in Users |-> "doctor"]
  /\ userFacility = [u \in Users |-> "undefined"]
  /\ patients = {}
  /\ visits = {}
  /\ guarded = NoGuard
  /\ earlier = "none"
  /\ jobs = [c \in Clients |-> NoJob]
  /\ done = NoneDone
  /\ limiter \in [maxRequests : 1..MaxLimit, windowMs : 1..MaxWindow]
  /\ NewMap

RateNext ==
  \/ Tick
  \/ \E user \in Users \cup {NoUser}, ip \in Addresses \cup {NoIp} :
        RateLimitByUser(user, ip)

RateSpec == RateInit /\ [][RateNext]_vars

\* a server with any roles and, in the SQL server, any patient records
AccessInit ==
  /\ AuthInit
  /\ registered = Users
  /\ userRole \in [Users -> Roles]
  /\ userFacility \in (IF service = "typeorm" THEN [Users -> FacilityValues]
                        ELSE {[u \in Users |-> "undefined"]})
  /\ patients \in (IF service = "sql" THEN PatientTables ELSE {{}})
  /\ visits \in VisitTables(patients)
  /\ Untouched

AccessNext ==
  \/ \E u \in Users \cup {NoUser} : RequirePatientAccess(u)
  \/ \E u \in Users \cup {NoUser} : RequirePatientModify(u)
  \/ \E u \in Users \cup {NoUser} : RequireAdmin(u)
  \/ \E u \in Users \cup {NoUser}, roles \in RoleLists : RequireRole(u, roles)
  \/ \E u \in Users \cup {NoUser}, f \in FacilityValues :
        RequireFacilityAccess(u, f)
  \/ \E u \in Users \cup {NoUser}, roles \in RoleLists : Authorize(u, roles)
  \/ \E u \in Users \cup {NoUser}, p \in PatientIds \cup {NoPatient},
        outcome \in ReadOutcomes :
        AuthorizePatientAccess(u, p, outcome)
  \/ \E u \in Users \cup {NoUser}, v \in VisitIds \cup {NoVisit},
        outcome \in ReadOutcomes :
        AuthorizeVisitAccess(u, v, outcome)

AccessSpec == AccessInit /\ [][AccessNext]_vars

\* ================================================================ properties

\* a token is usable in the deployed server
Usable(t) ==
  IF service = "typeorm" THEN OrmUsable(ormTokens, t, now)
  ELSE SqlUsable(sqlTokens, t, now)

\* this step is the one in which client c's refreshToken call returns a pair
RefreshReturnsPair(c) ==
  /\ calls[c].op = "refreshToken" /\ InFlight(c) /\ calls'[c] = Idle
  /\ last'.op = "refreshToken" /\ last'.result = "ok"

\* C1: no replay after rotation. In both servers, a refreshToken(t) call
\* that begins after some refreshToken(t) call has succeeded never returns a
\* new pair, whatever the time and whatever happened in between.
C1_NoReplayAfterRotation ==
  [][\A c \in Clients : RefreshReturnsPair(c) => ~calls[c].replay]_vars

\* C2: concurrent rotation. Of the refreshToken calls that present the same
\* token and whose storage statements interleave, only one returns a new
\* pair: a call that overlapped another never returns a pair for a token
\* that has already been exchanged.
C2_OneConcurrentRotationSucceeds ==
  [][\A c \in Clients :
       RefreshReturnsPair(c) /\ calls[c].overlap => calls[c].token \notin rotated]_vars

\* C3: in no reachable state are a presented token and the replacement that
\* was issued for it both usable.
C3_OldAndNewNeverBothUsable ==
  \A p \in replacedBy : ~(Usable(p[1]) /\ Usable(p[2]))

\* the owner of every stored row of token t is an active account
OwnerActive(t) == \A r \in ormTokens : r.token = t => userActive[r.userId]

C5_SweepRemovesOnlyInactive ==
  [][/\ \A c \in Clients :
          OrmLoginCleanup(c) =>
            \A r \in ormTokens \ ormTokens' : r.isRevoked \/ r.expiresAt <= now
     /\ SqlCleanExpiredTokens =>
          \A r \in sqlTokens \ sqlTokens' : r.expiresAt <= now]_vars

\* the sweep has deleted the row of a token that was revoked or expired
C5_Witness ==
  /\ service = "typeorm"
  /\ \E t \in dead : FindByToken(ormTokens, t) = {}

\* C6: sweep completeness. Right after a sweep that ran at time now, the
\* rows it covers (the user's rows for cleanupExpiredTokens, all rows for
\* cleanExpiredTokens) hold no row with expiresAt <= now and no revoked row.
C6_SweepLeavesNoInactive ==
  [][/\ \A c \in Clients :
          OrmLoginCleanup(c) =>
            \A r \in ormTokens' :
              r.userId = calls[c].userId => ~r.isRevoked /\ ~(r.expiresAt <= now)
     /\ CleanExpiredTokens("written") =>
          \A r \in sqlTokens' : ~(r.expiresAt <= now)]_vars

\* the request answered last was a successful logout(t) and nothing is in
\* flight: a logout(t) that begins now is the second of two in a row
SecondLogout(t) ==
  /\ last.op = "logout" /\ last.token = t /\ last.result = "ok"
  /\ \A d \in Clients : Free(d)

\* C7: logout is idempotent. In both servers a second logout(t) right after
\* a logout(t) completes without an error and leaves the store as the first
\* call left it.
C7_LogoutIdempotent ==
  [][\A c \in Clients, t \in Presentable :
       SecondLogout(t) =>
         /\ SqlLogout(c, t) => last'.result = "ok" /\ sqlTokens' = sqlTokens
         /\ \A ip \in Addresses :
              OrmLogout(c, t, ip) =>
                last'.result = "ok" /\ calls' = calls /\ ormTokens' = ormTokens]_vars

\* the primary keys of a set of rows
Ids(rows) == {r.id : r \in rows}

\* C8: revoke-all. logoutFromAllDevices(userId) writes every row of userId
\* that was not revoked when the call began, each of them is stored revoked
\* when the call completes, and the rows of every other user are unchanged.
C8_RevokeAll ==
  [][\A c \in Clients :
       /\ \A u \in Users, ip \in Addresses :
            OrmLogoutFromAllDevices(c, u, ip) =>
              Ids(calls'[c].ents) =
                Ids({r \in ormTokens : r.userId = u /\ ~r.isRevoked})
       /\ OrmLogoutFromAllDevicesSave(c) =>
            /\ \A e \in calls[c].ents :
                 \E r \in ormTokens' : r.id = e.id /\ r.isRevoked
            /\ {r \in ormTokens : r.userId # calls[c].userId} =
               {r \in ormTokens' : r.userId # calls[c].userId}]_vars

\* logoutFromAllDevices was the last request to complete and nothing is in
\* flight: it has revoked a row while a row of another user is not revoked
C8_Witness ==
  /\ last.op = "logoutFromAllDevices" /\ last.result = "ok"
  /\ \A d \in Clients : Free(d)
  /\ \E r1 \in ormTokens, r2 \in ormTokens :
       r1.isRevoked /\ r1.revokedAt = now /\ r2.userId # r1.userId /\ ~r2.isRevoked

\* C9: revoked and expired are terminal. A stored row that is revoked is
\* never stored non-revoked again, and a token once seen revoked or past its
\* expiresAt is never usable again, whatever operation runs.
C9_RevokedAndExpiredAreTerminal ==
  [][/\ \A r \in ormTokens :
          r.isRevoked => \A r2 \in ormTokens' : r2.id = r.id => r2.isRevoked
     /\ \A t \in dead' : ~OrmUsable(ormTokens', t, now')]_vars

\* a row was revoked at an earlier time and is still stored, and another
\* token has run past its expiry without being revoked
C9_Witness ==
  /\ \E r \in ormTokens : r.isRevoked /\ r.revokedAt < now
  /\ \E r \in ormTokens : ~r.isRevoked /\ r.expiresAt <= now

\* C10: audit trail. Logout, rotation and password change never delete a
\* refresh-token row: a step that removes a stored row is a step of the
\* sweep (cleanupExpiredTokens or cleanExpiredTokens).
C10_OnlySweepDeletes ==
  [][/\ (\E r \in sqlTokens : r \notin sqlTokens') => SqlCleanExpiredTokens
     /\ (Ids(ormTokens) \ Ids(ormTokens') # {}) =>
          \E c \in Clients : OrmLoginCleanup(c)]_vars

\* the access token a is signed by the server and within its lifetime at t
AccessLive(a, t) ==
  a[1] = "jwt" /\ a[2] = "JWT_SECRET" /\ a[4] <= t /\ t < a[4] + AccessTtl

\* C11: logout does not invalidate the access token. In the TypeORM server,
\* once the refresh token of a session is revoked (logged out) or expired,
\* refreshToken with it fails with 'Invalid or expired refresh token', while
\* the access token of the same session still passes authenticateToken
\* until its own expiry, the account being active.
C11_LogoutKeepsAccessToken ==
  [][\A c \in Clients, s \in sessions :
       s[2] \in dead =>
         /\ \A ip \in Addresses :
              OrmRefreshToken(c, s[2], ip) =>
                /\ last'.op = "refreshToken"
                /\ last'.result = "Invalid or expired refresh token"
                /\ calls' = calls
         /\ (OrmAuthenticateToken(c, s[1]) /\ AccessLive(s[1], now)
               /\ userActive[s[1][3]]) =>
              last'.op = "authenticate" /\ last'.result = "ok"]_vars

\* a protected request has just passed authenticateToken with the access
\* token of a session whose refresh token was revoked before
C11_Witness ==
  /\ service = "typeorm"
  /\ last.op = "authenticate" /\ last.result = "ok"
  /\ \E s \in sessions :
       /\ s[1] = last.token
       /\ \E r \in ormTokens : r.token = s[2] /\ r.isRevoked

\* the times at which an access token can be verified
Clock == 0..(MaxTime + AccessTtl)

Persisted ==
  {r.token : r \in ormTokens} \cup {r.token : r \in sqlTokens} \cup dead

\* C13: no half-completed login. Whenever login or refreshToken returns a
\* token pair, a refresh-token row of the returned refresh token has been
\* persisted; when the insert fails no pair is returned.
C13_ReturnedPairIsPersisted ==
  [][\A s \in sessions' \ sessions : s[2] \in Persisted']_vars

\* one request has returned a pair, another has ended on a failed insert
C13_Witness ==
  /\ sessions # {}
  /\ last.result \in WriteOutcomes \ {"written"}

\* the errors of the store
StorageErrors == (WriteOutcomes \ {"written"}) \cup {"SQLITE_CONSTRAINT"}

\* C14: a storage error raised while login issues the tokens reaches the
\* client as status 500, in the TypeORM handler and in the SQL route.
C14_StorageErrorIs500 ==
  [][\A c \in Clients, u \in Users, pw \in Passwords :
       ((\E ip \in Addresses : OrmLogin(c, u, pw, ip)) \/ SqlLogin(c, u, pw)) =>
         (calls' = calls /\ last'.op = "login" /\ last'.result \in StorageErrors
            => last'.status = 500)]_vars

\* the replacement of the token client c's refreshToken call is rotating
Replacement(c) ==
  IF service = "typeorm" THEN calls[c].newToken ELSE JwtSign(calls[c].userId, now)

\* C16: no session gap in rotation. When a refreshToken call that found its
\* token active ends, with or without a failed insert, the presented token
\* or its replacement is usable.
C16_NoSessionGap ==
  [][\A c \in Clients :
       (calls[c].op = "refreshToken" /\ InFlight(c) /\ calls'[c] = Idle) =>
         \E t \in {calls[c].token, Replacement(c)} : Usable(t)']_vars

\* every access token a client could send
AccessUniverse ==
  {<<"jwt", k, u, t>> : k \in {"JWT_SECRET", "not-the-secret"},
                        u \in Users, t \in 0..MaxTime} \cup {Garbage}

\* C17: verifyAccessToken is stateless. For a fixed token and clock value
\* its result is the same before and after every step that changes the user
\* or refresh-token stores, and authenticateToken, which calls it, writes no
\* stored row.
C17_VerifyAccessTokenStateless ==
  [][/\ now' = now =>
          \A a \in AccessUniverse :
            VerifyAccessToken(a, now)' = VerifyAccessToken(a, now)
     /\ \A c \in Clients, a \in AccessPresentable :
          OrmAuthenticateToken(c, a) =>
            UNCHANGED <<ormTokens, sqlTokens, userActive, userPassword>>]_vars

\* an access token has been verified while refresh-token rows are stored
C17_Witness ==
  /\ service = "typeorm"
  /\ last.op = "authenticate" /\ last.result = "ok"
  /\ ormTokens # {}

\* C18: access-token failures are distinguished. A token with a valid
\* signature past its expiry is reported as expired and a token with a bad
\* signature or format as invalid, by verifyAccessToken and in the 401
\* response of authenticateToken and of authenticate.
C18_ExpiredAndInvalidDistinguished ==
  [][\A c \in Clients :
       /\ \A a \in AccessPresentable :
            OrmAuthenticateToken(c, a) =>
              /\ JwtVerifyAccess(a, now) = "TokenExpiredError" =>
                   /\ VerifyAccessToken(a, now).message = <<"Access", "token", "expired">>
                   /\ last'.result = "Access token has expired"
              /\ JwtVerifyAccess(a, now) = "JsonWebTokenError" =>
                   /\ VerifyAccessToken(a, now).message = <<"Invalid", "access", "token">>
                   /\ last'.result = "Invalid access token"
       /\ \A a \in BearerPresentable :
            SqlAuthenticate(c, a) =>
              /\ JwtVerifyBearer(a, now) = "TokenExpiredError" =>
                   last'.result = "Token expired"
              /\ JwtVerifyBearer(a, now) = "JsonWebTokenError" =>
                   last'.result = "Invalid token"]_vars

\* C15: password change terminates every session. After the SQL
\* changePassword of a user has succeeded, no refresh token issued to that
\* user before the call is accepted by refreshToken again; the rows of the
\* other users stay as they are; and a call with a wrong current password
\* fails and removes no row.
C15_PasswordChangeEndsSessions ==
  [][/\ \A t \in terminated' : ~Usable(t)'
     /\ \A c \in Clients :
          /\ SqlChangePasswordDelete(c) =>
               \A r \in sqlTokens : r.userId # calls[c].userId => r \in sqlTokens'
          /\ \A u \in Users, current \in Passwords, new \in Passwords :
               (SqlChangePassword(c, u, current, new) /\ current # userPassword[u]) =>
                 /\ last'.op = "changePassword" /\ last'.result # "ok"
                 /\ calls' = calls
                 /\ sqlTokens' = sqlTokens]_vars

\* C19: role predicates. For every role of the closed role set,
\* canAccessPatient is true exactly for doctor, nurse and admin,
\* canModifyPatient exactly for doctor and admin, isAdmin exactly for admin;
\* and requirePatientAccess, requirePatientModify and requireAdmin let the
\* request of an authenticated user proceed exactly when the predicate of
\* the user's role is true.
C19_RolePredicates ==
  [][/\ \A role \in OrmRoles :
          /\ CanAccessPatient(role) <=> role \in {"doctor", "nurse", "admin"}
          /\ CanModifyPatient(role) <=> role \in {"doctor", "admin"}
          /\ IsAdmin(role) <=> role = "admin"
     /\ \A u \in Users :
          /\ RequirePatientAccess(u) =>
               (guarded'.proceeds <=> userRole[u] \in {"doctor", "nurse", "admin"})
          /\ RequirePatientModify(u) =>
               (guarded'.proceeds <=> userRole[u] \in {"doctor", "admin"})
          /\ RequireAdmin(u) =>
               (guarded'.proceeds <=> userRole[u] = "admin")]_vars

\* requirePatientModify has stopped a nurse, whom requirePatientAccess lets
\* through
C19_Witness ==
  /\ guarded.guard = "requirePatientModify"
  /\ guarded.user \in Users
  /\ userRole[guarded.user] = "nurse"
  /\ ~guarded.proceeds /\ guarded.status = 403

\* C20: ownership check. For every authenticated user u and patient id p,
\* authorizePatientAccess, once its existence query has answered, lets the
\* request proceed if and only if u is an admin, or p exists and was created
\* by u, or some visit on p has u as its doctor; every other request is
\* denied with 403.
C20_OwnershipCheck ==
  [][\A u \in Users, p \in PatientIds :
       AuthorizePatientAccess(u, p, "read") =>
         /\ guarded'.proceeds <=>
              \/ userRole[u] = "admin"
              \/ \E r \in patients : r.id = p /\ r.created_by = u
              \/ \E v \in visits : v.patient_id = p /\ v.doctor_id = u
         /\ ~guarded'.proceeds => guarded'.status = 403]_vars

\* a user who is no admin and did not create the patient has been let
\* through because of a visit
C20_Witness ==
  /\ guarded.guard = "authorizePatientAccess"
  /\ guarded.proceeds
  /\ guarded.user \in Users
  /\ userRole[guarded.user] # "admin"
  /\ \A r \in patients : r.id = guarded.resource => r.created_by # guarded.user
  /\ \E v \in visits : v.patient_id = guarded.resource /\ v.doctor_id = guarded.user

\* C21: the facility check fails closed. requireFacilityAccess lets the
\* request of an authenticated user proceed if and only if the user is an
\* admin or the facilityId of the identity is the facilityId requested; for a
\* user who is no admin, a facilityId that is missing on the identity or in
\* the request is denied with 403.
C21_FacilityCheckFailsClosed ==
  [][\A u \in Users, f \in FacilityValues :
       RequireFacilityAccess(u, f) =>
         /\ guarded'.proceeds <=>
              \/ IsAdmin(userRole[u])
              \/ (userFacility[u] = f /\ f \in Facilities)
         /\ (~IsAdmin(userRole[u])
               /\ (userFacility[u] \notin Facilities \/ f \notin Facilities)) =>
              (~guarded'.proceeds /\ guarded'.status = 403)]_vars

\* C22: ownership lookup errors deny. When the existence query of
\* authorizePatientAccess or of authorizeVisitAccess fails for a user who is
\* no admin, the guard hands the error to next: the request does not reach
\* the route handler and leaves through errorHandler.
C22_LookupErrorDenies ==
  [][\A u \in Users, outcome \in ReadOutcomes \ {"read"} :
       userRole[u] # "admin" =>
         /\ \A p \in PatientIds :
              AuthorizePatientAccess(u, p, outcome) =>
                (~guarded'.proceeds /\ guarded'.status = ErrorHandler(outcome))
         /\ \A v \in VisitIds :
              AuthorizeVisitAccess(u, v, outcome) =>
                (~guarded'.proceeds /\ guarded'.status = ErrorHandler(outcome))]_vars

\* the doctor of a visit has asked for it while the query failed, and has
\* been stopped with the status of a storage error
C22_Witness ==
  /\ guarded.guard = "authorizeVisitAccess"
  /\ guarded.user \in Users
  /\ userRole[guarded.user] # "admin"
  /\ HasVisitAccess(patients, visits, guarded.resource, guarded.user)
  /\ ~guarded.proceeds /\ guarded.status = 500

\* the guard has ended the request with this status
Answered(code) == ~guarded'.proceeds /\ guarded'.status = code

\* C24: status mapping of the guards. Every guard answers a request without
\* a verified identity with 401 and a request whose identity lacks the role
\* or permission it requires with 403, and calls the route handler in
\* neither case.
C24_GuardStatusMapping ==
  [][/\ \A roles \in RoleLists, f \in FacilityValues :
          (\/ RequirePatientAccess(NoUser) \/ RequirePatientModify(NoUser)
           \/ RequireAdmin(NoUser) \/ RequireRole(NoUser, roles)
           \/ RequireFacilityAccess(NoUser, f) \/ Authorize(NoUser, roles))
            => Answered(401)
     /\ \A u \in Users :
          /\ (RequirePatientAccess(u) /\ ~CanAccessPatient(userRole[u]))
               => Answered(403)
          /\ (RequirePatientModify(u) /\ ~CanModifyPatient(userRole[u]))
               => Answered(403)
          /\ (RequireAdmin(u) /\ ~IsAdmin(userRole[u])) => Answered(403)
          /\ \A roles \in RoleLists :
               ((RequireRole(u, roles) \/ Authorize(u, roles))
                  /\ userRole[u] \notin roles) => Answered(403)
          /\ \A f \in FacilityValues :
               (RequireFacilityAccess(u, f) /\ ~IsAdmin(userRole[u])
                  /\ ~(userFacility[u] = f /\ f \in Facilities)) => Answered(403)]_vars

\* the visits of doctor d on patient p, and whether d created p
VisitsOf(d, p) == {v \in visits : v.patient_id = p /\ v.doctor_id = d}
Created(d, p) == \E r \in patients : r.id = p /\ r.created_by = d

\* C23: ownership is decided from the current tables on every request. A
\* doctor who has a visit on patient p stored is let through to p, also when
\* the same request was denied just before; a doctor who has no visit on p
\* and did not create p is denied, also when the same request was allowed
\* just before.
C23_DecidedFromCurrentStorage ==
  [][\A d \in Users, p \in PatientIds :
       (AuthorizePatientAccess(d, p, "read") /\ userRole[d] # "admin") =>
         /\ VisitsOf(d, p) # {} => guarded'.proceeds
         /\ (VisitsOf(d, p) = {} /\ ~Created(d, p)) =>
              (~guarded'.proceeds /\ guarded'.status = 403)]_vars

\* a doctor was denied a patient, a visit of the doctor on the patient was
\* created, and the same request has then been let through
C23_Witness ==
  /\ guarded.guard = "authorizePatientAccess"
  /\ guarded.proceeds
  /\ earlier = "denied"
  /\ done = [op |-> "createVisit", status |-> 201]
  /\ VisitsOf(guarded.user, guarded.resource) # {}
  /\ ~Created(guarded.user, guarded.resource)

\* C30: visits reference an existing patient. After every step of
\* createVisit, deleteVisit and deletePatient each stored visit has the id
\* of a stored patient as its patient_id, and the DELETE of deletePatient on
\* a patient that has a visit fails with 400 and deletes nothing.
C30_VisitsReferenceStoredPatient ==
  [][/\ \A v \in visits' : \E r \in patients' : r.id = v.patient_id
     /\ \A c \in Clients :
          (DeletePatientDelete(c)
             /\ \E v \in visits : v.patient_id = jobs[c].patient) =>
            (done'.status = 400 /\ UNCHANGED <<patients, visits>>)]_vars

\* the requests of the key of request r that the rate limiter answered
\* before r
Before(r) == {q \in served : q.key = r.key /\ q.seq < r.seq}

\* the start of the window that request r falls in: the first request of a
\* key opens a window that lasts windowMs, and so does the first request
\* after the resetTime of the window before
RECURSIVE WindowStart(_)
WindowStart(r) ==
  IF Before(r) = {} THEN r.time
  ELSE LET q == CHOOSE q \in Before(r) : \A o \in Before(r) : o.seq <= q.seq
           start == WindowStart(q)
       IN IF r.time > start + limiter.windowMs THEN r.time ELSE start

\* the requests that were passed to next in the window of request r
PassedWith(r) ==
  {q \in served : /\ q.key = r.key /\ q.status = 0
                  /\ WindowStart(q) = WindowStart(r)}

\* C29: per-key rate limit. In every window of every key at most maxRequests
\* requests are passed to next; a request is answered 429, without next,
\* exactly when maxRequests requests of its window were passed before it;
\* and the first request after a resetTime opens a new window, whose count
\* is 1.
C29_PerKeyRateLimit ==
  \A r \in served :
    /\ Cardinality(PassedWith(r)) <= limiter.maxRequests
    /\ r.status = 429 <=>
         Cardinality({q \in PassedWith(r) : q.seq < r.seq}) >= limiter.maxRequests
    /\ r.status \in {0, 429}
    /\ (\A o \in served : o.key = r.key => o.seq <= r.seq) =>
         /\ hits[r.key].resetTime = WindowStart(r) + limiter.windowMs
         /\ hits[r.key].count = Cardinality(PassedWith(r))
         /\ (WindowStart(r) = r.time /\ PassedWith(r) = {r}) => hits[r.key].count = 1

\* a key was answered 429 in one window and, after the resetTime, has had a
\* request passed to next in a new window
C29_Witness ==
  \E q, r \in served :
    /\ q.key = r.key /\ q.seq < r.seq
    /\ q.status = 429
    /\ r.time > WindowStart(q) + limiter.windowMs
    /\ r.status = 0
    /\ hits[r.key] = [count |-> 1, resetTime |-> r.time + limiter.windowMs]

\* the step adds one row to the table of the deployed server, a usable row
\* of user u, and leaves every row that was stored as it was
InsertsOneRow(u) ==
  /\ ormTokens \subseteq ormTokens' /\ sqlTokens \subseteq sqlTokens'
  /\ LET new == (ormTokens' \ ormTokens) \cup (sqlTokens' \ sqlTokens)
     IN /\ Cardinality(new) = 1
        /\ \A r \in new : r.userId = u /\ Usable(r.token)'

\* C26: issuing a token pair only inserts. A login or registration that
\* succeeds adds exactly one new usable refresh-token row of the user that
\* is authenticated, and every row stored before, of that user and of every
\* other user, is still stored and unchanged when the call has answered.
C26_IssuingOnlyInserts ==
  [][\A c \in Clients :
       /\ \A u \in Users, pw \in Passwords :
            /\ (OrmRegisterSave(c, pw) /\ calls[c].userId = u /\ last'.result = "ok")
                 => InsertsOneRow(u)
            /\ (SqlRegisterInsert(c, pw) /\ calls[c].userId = u /\ last'.result = "ok")
                 => InsertsOneRow(u)
            /\ (SqlLogin(c, u, pw) /\ last'.result = "ok") => InsertsOneRow(u)
            /\ \A ip \in Addresses :
                 (OrmLogin(c, u, pw, ip) /\ InFlight(c)') => InsertsOneRow(u)
       /\ OrmLoginCleanup(c) => ormTokens \subseteq ormTokens']_vars

\* C27: email uniqueness. Whatever the order and the interleaving of the
\* register calls, and however the address is spelled, a registration whose
\* address is stored already when the call looks it up or saves the user
\* fails as a conflict (409), and creates no user and no refresh-token row.
C27_EmailUnique ==
  [][\A c \in Clients :
       (\/ \E email \in Emails :
             /\ OrmRegister(c, email) \/ SqlRegister(c, email)
             /\ ToLowerCase(email) \in registered
        \/ \E pw \in Passwords :
             /\ OrmRegisterSave(c, pw) \/ SqlRegisterInsert(c, pw)
             /\ calls[c].userId \in registered)
       => /\ last'.op = "register" /\ last'.status = 409
          /\ UNCHANGED <<registered, userPassword, ormTokens, sqlTokens>>]_vars

\* the credentials of a login are refused: the email is unknown, the account
\* is inactive, or the password does not match
LoginRefused(u, pw) ==
  u \notin registered \/ ~userActive[u] \/ pw # userPassword[u]

\* C28: a failed login changes nothing. When login fails because the email
\* is unknown, the account is inactive or the password does not match, no
\* refresh-token row is inserted or deleted and no last-login timestamp is
\* written, in the TypeORM and in the SQL AuthService.login.
C28_FailedLoginChangesNothing ==
  [][\A c \in Clients, u \in Users, pw \in Passwords :
       /\ (LoginRefused(u, pw) /\ \E ip \in Addresses : OrmLogin(c, u, pw, ip)) =>
            /\ last'.op = "login" /\ last'.result # "ok"
            /\ UNCHANGED <<ormTokens, sqlTokens, lastLogin>>
       /\ (LoginRefused(u, pw) /\ SqlLogin(c, u, pw)) =>
            /\ last'.op = "login" /\ last'.result # "ok"
            /\ UNCHANGED <<ormTokens, sqlTokens, lastLogin>>]_vars

\* a login was refused last, for a deactivated account that had logged in
\* before and whose refresh-token row is stored
C28_Witness ==
  /\ last.op = "login"
  /\ last.result = "Account is deactivated"
  /\ \E u \in registered :
       /\ ~userActive[u]
       /\ lastLogin[u] # NoTime
       /\ \E r \in sqlTokens : r.userId = u

\* the same in the TypeORM server, for a wrong password
C28_WitnessOrm ==
  /\ service = "typeorm"
  /\ last.op = "login"
  /\ last.result = "Invalid email or password"
  /\ \E u \in registered : lastLogin[u] # NoTime /\ \E r \in ormTokens : r.userId = u

\* the timer of the sweep is armed in a running process: the next interval
\* runs cleanExpiredTokens again
SweepArmed == service = "sql" /\ serving

\* C25: sweep failures are not fatal. When the DELETE of a run of the
\* periodic sweep fails, the error is swallowed: the process keeps serving
\* requests, the run changes no refresh-token row (and nothing else), and
\* the sweep runs again at the next interval.
C25_SweepFailureNotFatal ==
  [][\A outcome \in WriteOutcomes \ {"written"} :
       CleanExpiredTokens(outcome) =>
         /\ serving'
         /\ SweepArmed'
         /\ UNCHANGED <<sqlTokens, ormTokens>>
         /\ UNCHANGED <<calls, last, sessions, registered, lastLogin>>]_vars

\* a run of the sweep has failed, the process serves, and a row that the
\* run would have deleted is stored
C25_Witness ==
  /\ sweepFailed
  /\ SweepArmed
  /\ \E r \in sqlTokens : r.expiresAt <= now
====
